---------------------------- MODULE Spec2Model ----------------------------
(***************************************************************************)
(* NSM signal pipeline of jesusweb3/NSM: the oscillator engine             *)
(* (NSMIndicator), the gateway (SignalManager), the live feed (DataFeed),  *)
(* the historical loader (HistoricalDataLoader) and the main loop.         *)
(*                                                                         *)
(* Numbers.  The code computes in IEEE doubles.  The model computes in     *)
(* exact rationals <<n, d>> in lowest terms (d > 0); <<0, 0>> is NaN.      *)
(* Equality of two rationals is equality of the tuples.                    *)
(***************************************************************************)
EXTENDS Integers, Sequences, FiniteSets, TLC

VARIABLES
    config,                     \* NSMConfig: the four periods
    prices,                     \* NSMIndicator.prices
    fast_ema_values,            \* NSMIndicator.fast_ema_values
    slow_ema_values,            \* NSMIndicator.slow_ema_values
    macd_history,               \* NSMIndicator.macd_history
    smoothed_history,           \* NSMIndicator.smoothed_history
    smoothed_val,               \* NSMIndicator.smoothed_val
    historical_initialization,  \* NSMIndicator.historical_initialization
    current_trend,              \* NSMIndicator.current_trend
    last_signal,                \* SignalManager.last_signal
    candles_processed,          \* SignalManager.candles_processed
    signals_generated,          \* SignalManager.signals_generated
    is_running,                 \* DataFeed.is_running
    reconnect_attempts,         \* DataFeed.reconnect_attempts
    ws,                         \* DataFeed.ws: "None", or the socket's state
    pc,                         \* position of SignalManager.start / main
    pending,                    \* historical candles start() still has to ingest
    feed_pc,                    \* position of the feed thread inside on_new_candle
    feed_candle,                \* the candle the feed thread is working on
    status_pc,                  \* position of the main thread inside get_status
    status,                     \* the dictionary get_status is building
    call,                       \* the last call made and what it returned
    hist_count,                 \* prices held when warm-up was finished (-1 before)
    last_ts,                    \* close time of the last candle ingested
    trace                       \* per live candle: direction and event emitted

engine == <<prices, fast_ema_values, slow_ema_values, macd_history,
            smoothed_history, smoothed_val, historical_initialization,
            current_trend>>
gateway == <<last_signal, candles_processed, signals_generated>>
feed == <<is_running, reconnect_attempts, ws>>
threads == <<feed_pc, feed_candle, status_pc, status>>
ghost == <<call, hist_count, last_ts, trace>>
vars == <<config, engine, gateway, feed, pc, pending, threads, ghost>>

-----------------------------------------------------------------------------
(* Exact rational arithmetic standing for the code's float arithmetic.     *)

Abs(i) == IF i < 0 THEN -i ELSE i

RECURSIVE GCD(_, _)
GCD(a, b) == IF b = 0 THEN a ELSE GCD(b, a % b)

NaN == <<0, 0>>
IsNaN(x) == x[2] = 0

R(n, d) == LET g == GCD(Abs(n), d) IN <<n \div g, d \div g>>
RInt(i) == <<i, 1>>
RNeg(a) == <<-a[1], a[2]>>
\* with g the gcd of the denominators, what the sum a[1]*(b[2]/g) +
\* b[1]*(a[2]/g) can still share with the denominator divides g
RAdd(a, b) ==
    LET g == GCD(a[2], b[2])
        n == a[1] * (b[2] \div g) + b[1] * (a[2] \div g)
        h == GCD(Abs(n), g)
    IN  <<n \div h, (a[2] \div g) * (b[2] \div h)>>
RSub(a, b) == RAdd(a, RNeg(b))
\* cancelling across leaves the product in lowest terms
RMul(a, b) ==
    LET g1 == GCD(Abs(a[1]), b[2])
        g2 == GCD(Abs(b[1]), a[2])
    IN  <<(a[1] \div g1) * (b[1] \div g2), (a[2] \div g2) * (b[2] \div g1)>>
RInv(a) == IF a[1] < 0 THEN <<-a[2], -a[1]>> ELSE <<a[2], a[1]>>
RDiv(a, b) == RMul(a, RInv(b))
RLt(a, b) ==
    LET g == GCD(a[2], b[2])
    IN  a[1] * (b[2] \div g) < b[1] * (a[2] \div g)

RECURSIVE RSum(_)
RSum(s) == IF s = <<>> THEN RInt(0) ELSE RAdd(Head(s), RSum(Tail(s)))

RECURSIVE RMax(_)
RMax(s) ==
    IF Len(s) = 1 THEN s[1]
    ELSE LET m == RMax(Tail(s)) IN IF RLt(m, s[1]) THEN s[1] ELSE m

RECURSIVE RMin(_)
RMin(s) ==
    IF Len(s) = 1 THEN s[1]
    ELSE LET m == RMin(Tail(s)) IN IF RLt(s[1], m) THEN s[1] ELSE m

Last(s) == s[Len(s)]
Max2(a, b) == IF a > b THEN a ELSE b

-----------------------------------------------------------------------------
(* NSMIndicator.  The engine's fields are gathered in a record e so that   *)
(* one handler can apply several methods in sequence; the variables of     *)
(* the same names hold the record's fields (Eng, SetEngine below).         *)

LONG == "LONG"
SHORT == "SHORT"
NONE == "NONE"
None == "None"          \* Python's None: the unset trend, the unset signal
NoValue == <<>>         \* Python's None where a float is expected

NSMIndicator(cfg) ==
    [config |-> cfg,
     prices |-> <<>>,
     fast_ema_values |-> <<>>,
     slow_ema_values |-> <<>>,
     macd_history |-> <<>>,
     smoothed_history |-> <<>>,
     smoothed_val |-> RInt(0),
     historical_initialization |-> TRUE,
     current_trend |-> None]

alpha_smooth(cfg) == RDiv(RInt(2), RInt(1 + Max2(cfg.smoothing_period, 1)))

ema_alpha(period) == RDiv(RInt(2), RInt(period + 1))

\* the loop of calculate_ema: acc holds ema[1 .. i-1]
RECURSIVE ema_loop(_, _, _, _)
ema_loop(p, alpha, i, acc) ==
    IF i > Len(p) THEN acc
    ELSE LET v == IF ~IsNaN(p[i]) /\ ~IsNaN(acc[i - 1])
                  THEN RAdd(RMul(alpha, p[i]),
                            RMul(RSub(RInt(1), alpha), acc[i - 1]))
                  ELSE NaN
         IN  ema_loop(p, alpha, i + 1, Append(acc, v))

calculate_ema(p, period) ==
    LET n == Len(p)
    IN  IF n < period THEN [i \in 1..n |-> NaN]
        ELSE IF \E i \in 1..period : IsNaN(p[i]) THEN [i \in 1..n |-> NaN]
        ELSE LET mean == RDiv(RSum(SubSeq(p, 1, period)), RInt(period))
             IN  ema_loop(p, ema_alpha(period), period + 1,
                          [i \in 1..period |->
                               IF i = period THEN mean ELSE NaN])

\* a variant of the guard that lets a zero price through
price_rejected_lt(close_price) == close_price < 0

\* the guard of add_candle
price_rejected(close_price) == close_price <= 0

\* a variant whose window ends before the current macd value
recent_macd_previous(cfg, mh) ==
    IF Len(mh) = 1 THEN mh
    ELSE SubSeq(mh, Max2(1, Len(mh) - cfg.normalization_period), Len(mh) - 1)

\* the trailing window of macd_history used for normalisation
recent_macd(cfg, mh) ==
    IF Len(mh) >= cfg.normalization_period
    THEN SubSeq(mh, Len(mh) - cfg.normalization_period + 1, Len(mh))
    ELSE mh

\* a variant that reads a flat window as the top of the range
normalize_flat_high(macd_value, recent) ==
    LET mmax == RMax(recent)
        mmin == RMin(recent)
    IN  IF mmin # mmax
        THEN RSub(RMul(RInt(2), RDiv(RSub(macd_value, mmin), RSub(mmax, mmin))),
                  RInt(1))
        ELSE RInt(1)

\* a variant without the test for a flat window: 0 / 0
normalize_unguarded(macd_value, recent) ==
    LET mmax == RMax(recent)
        mmin == RMin(recent)
    IN  IF mmin # mmax
        THEN RSub(RMul(RInt(2), RDiv(RSub(macd_value, mmin), RSub(mmax, mmin))),
                  RInt(1))
        ELSE NaN

\* add_candle, lines 94-101: the macd value placed in the range of the window
normalize(macd_value, recent) ==
    LET mmax == RMax(recent)
        mmin == RMin(recent)
    IN  IF mmin # mmax
        THEN RSub(RMul(RInt(2), RDiv(RSub(macd_value, mmin), RSub(mmax, mmin))),
                  RInt(1))
        ELSE RInt(0)

\* a variant that starts the history again once it holds two values
add_candle_append_reset(e, sv) ==
    [e EXCEPT !.smoothed_val = sv,
              !.smoothed_history = IF Len(@) >= 2 THEN <<sv>>
                                   ELSE Append(@, sv)]

\* add_candle, lines 104-105: the smoothed value is stored and appended
add_candle_append(e, sv) ==
    [e EXCEPT !.smoothed_val = sv,
              !.smoothed_history = Append(@, sv)]

\* a variant that waits until the window holds normalization_period values
add_candle_smooth_full_window(e, macd_value, recent) ==
    IF Len(recent) >= e.config.normalization_period
    THEN add_candle_append(e,
             RAdd(e.smoothed_val,
                  RMul(alpha_smooth(e.config),
                       RSub(normalize(macd_value, recent), e.smoothed_val))))
    ELSE e

\* a variant that smooths the macd value itself when the window is flat
add_candle_smooth_raw(e, macd_value, recent) ==
    IF Len(recent) > 0
    THEN add_candle_append(e,
             RAdd(e.smoothed_val,
                  RMul(alpha_smooth(e.config),
                       RSub(IF RMin(recent) = RMax(recent) THEN macd_value
                            ELSE normalize(macd_value, recent),
                            e.smoothed_val))))
    ELSE e

\* add_candle, lines 93-105: normalisation over the window and smoothing
add_candle_smooth(e, macd_value, recent) ==
    IF Len(recent) > 0
    THEN add_candle_append(e,
             RAdd(e.smoothed_val,
                  RMul(alpha_smooth(e.config),
                       RSub(normalize(macd_value, recent), e.smoothed_val))))
    ELSE e

\* add_candle, lines 83-91: the macd value and the trailing window
add_candle_macd(e, macd_value) ==
    add_candle_smooth([e EXCEPT !.macd_history = Append(@, macd_value)],
                      macd_value,
                      recent_macd(e.config, Append(e.macd_history, macd_value)))

\* add_candle, lines 76-81: nothing more while either average is undefined
add_candle_ema(e) ==
    IF IsNaN(Last(e.fast_ema_values)) \/ IsNaN(Last(e.slow_ema_values))
    THEN e
    ELSE add_candle_macd(e, RSub(Last(e.fast_ema_values),
                                 Last(e.slow_ema_values)))

\* add_candle, lines 70-74: the price is appended, both averages recomputed
add_candle_prices(e, p) ==
    add_candle_ema([e EXCEPT !.prices = p,
                             !.fast_ema_values =
                                 calculate_ema(p, e.config.fast_period),
                             !.slow_ema_values =
                                 calculate_ema(p, e.config.slow_period)])

add_candle(e, close_price) ==
    IF price_rejected(close_price) THEN e
    ELSE add_candle_prices(e, Append(e.prices, RInt(close_price)))

\* a variant with the two comparisons exchanged
direction_swapped(sh) ==
    LET current_val == sh[Len(sh)]
        previous_val == sh[Len(sh) - 1]
    IN  IF RLt(current_val, previous_val) THEN LONG
        ELSE IF RLt(previous_val, current_val) THEN SHORT
        ELSE NONE

\* LONG / SHORT / NONE from the last two smoothed values
direction(sh) ==
    LET current_val == sh[Len(sh)]
        previous_val == sh[Len(sh) - 1]
    IN  IF RLt(previous_val, current_val) THEN LONG
        ELSE IF RLt(current_val, previous_val) THEN SHORT
        ELSE NONE

\* a variant that reads an unchanged value as a rise
finish_historical_loading_ge(e) ==
    LET e1 == [e EXCEPT !.historical_initialization = FALSE]
        sh == e.smoothed_history
    IN  IF Len(sh) >= 2
        THEN [e1 EXCEPT !.current_trend =
                 IF ~RLt(sh[Len(sh)], sh[Len(sh) - 1]) THEN LONG ELSE SHORT]
        ELSE e1

finish_historical_loading(e) ==
    LET e1 == [e EXCEPT !.historical_initialization = FALSE]
    IN  IF Len(e.smoothed_history) >= 2
        THEN [e1 EXCEPT !.current_trend = direction(e.smoothed_history)]
        ELSE e1

\* a variant that emits only once a trend has been assigned
get_signal_needs_trend_emit(e, new_signal) ==
    IF new_signal = NONE THEN [e |-> e, ret |-> NONE]
    ELSE IF e.current_trend # None /\ new_signal # e.current_trend
    THEN [e |-> [e EXCEPT !.current_trend = new_signal], ret |-> new_signal]
    ELSE [e |-> e, ret |-> NONE]

get_signal_needs_trend(e) ==
    IF e.historical_initialization THEN [e |-> e, ret |-> NONE]
    ELSE IF Len(e.smoothed_history) < 2 THEN [e |-> e, ret |-> NONE]
    ELSE get_signal_needs_trend_emit(e, direction(e.smoothed_history))

\* a variant that returns the direction on every step that has one
get_signal_emit_level(e, new_signal) ==
    IF new_signal = NONE THEN [e |-> e, ret |-> NONE]
    ELSE [e |-> [e EXCEPT !.current_trend = new_signal], ret |-> new_signal]

\* a variant that also records a step without direction as the trend
get_signal_emit_tracks(e, new_signal) ==
    IF new_signal = NONE
    THEN [e |-> [e EXCEPT !.current_trend = NONE], ret |-> NONE]
    ELSE IF new_signal # e.current_trend
    THEN [e |-> [e EXCEPT !.current_trend = new_signal], ret |-> new_signal]
    ELSE [e |-> e, ret |-> NONE]

\* get_signal, lines 144-152: a signal only when the trend changes
get_signal_emit(e, new_signal) ==
    IF new_signal = NONE THEN [e |-> e, ret |-> NONE]
    ELSE IF new_signal # e.current_trend
    THEN [e |-> [e EXCEPT !.current_trend = new_signal], ret |-> new_signal]
    ELSE [e |-> e, ret |-> NONE]

\* a variant that does not look at historical_initialization
get_signal_unguarded(e) ==
    IF Len(e.smoothed_history) < 2 THEN [e |-> e, ret |-> NONE]
    ELSE get_signal_emit(e, direction(e.smoothed_history))

\* get_signal returns the signal and assigns current_trend: [e, ret]
get_signal(e) ==
    IF e.historical_initialization THEN [e |-> e, ret |-> NONE]
    ELSE IF Len(e.smoothed_history) < 2 THEN [e |-> e, ret |-> NONE]
    ELSE get_signal_emit(e, direction(e.smoothed_history))

get_current_value(e) ==
    IF e.smoothed_history = <<>> THEN NoValue ELSE Last(e.smoothed_history)

is_ready(e) == Len(e.smoothed_history) >= 2

ema_ready(values) == IF values # <<>> THEN ~IsNaN(Last(values)) ELSE FALSE

get_stats(e) ==
    [prices_received |-> Len(e.prices),
     macd_values |-> Len(e.macd_history),
     smoothed_values |-> Len(e.smoothed_history),
     ready |-> is_ready(e),
     current_value |-> get_current_value(e),
     historical_initialization |-> e.historical_initialization,
     current_trend |-> e.current_trend,
     fast_ema_ready |-> ema_ready(e.fast_ema_values),
     slow_ema_ready |-> ema_ready(e.slow_ema_values)]

\* the engine held in the variables, and its assignment
Eng ==
    [config |-> config,
     prices |-> prices,
     fast_ema_values |-> fast_ema_values,
     slow_ema_values |-> slow_ema_values,
     macd_history |-> macd_history,
     smoothed_history |-> smoothed_history,
     smoothed_val |-> smoothed_val,
     historical_initialization |-> historical_initialization,
     current_trend |-> current_trend]

SetEngine(e) ==
    /\ prices' = e.prices
    /\ fast_ema_values' = e.fast_ema_values
    /\ slow_ema_values' = e.slow_ema_values
    /\ macd_history' = e.macd_history
    /\ smoothed_history' = e.smoothed_history
    /\ smoothed_val' = e.smoothed_val
    /\ historical_initialization' = e.historical_initialization
    /\ current_trend' = e.current_trend

-----------------------------------------------------------------------------
(* SignalManager: the gateway's fields in a record g.                      *)

SignalManager ==
    [last_signal |-> None, candles_processed |-> 0, signals_generated |-> 0]

Gw ==
    [last_signal |-> last_signal,
     candles_processed |-> candles_processed,
     signals_generated |-> signals_generated]

SetGateway(g) ==
    /\ last_signal' = g.last_signal
    /\ candles_processed' = g.candles_processed
    /\ signals_generated' = g.signals_generated

\* on_new_candle, whole: the engine and gateway after it, the value
\* get_signal returned (NONE when it was not called) and the event logged.
\* The timestamp is only formatted for the log lines.  Its stages:
\* lines 42-43 (add_candle, the counter), 52-56 (readiness, get_signal),
\* 58-66 (the event).
\* a variant that counts the event and forgets to keep it
on_new_candle_signal_keeps_last(r, g) ==
    IF r.ret # NONE /\ r.ret # g.last_signal
    THEN [e |-> r.e,
          g |-> [g EXCEPT !.signals_generated = @ + 1],
          current_signal |-> r.ret,
          event |-> r.ret]
    ELSE [e |-> r.e, g |-> g, current_signal |-> r.ret, event |-> NONE]

on_new_candle_signal(r, g) ==
    IF r.ret # NONE /\ r.ret # g.last_signal
    THEN [e |-> r.e,
          g |-> [g EXCEPT !.signals_generated = @ + 1,
                          !.last_signal = r.ret],
          current_signal |-> r.ret,
          event |-> r.ret]
    ELSE [e |-> r.e, g |-> g, current_signal |-> r.ret, event |-> NONE]

on_new_candle_ready(e, g) ==
    IF ~is_ready(e)
    THEN [e |-> e, g |-> g, current_signal |-> NONE, event |-> NONE]
    ELSE on_new_candle_signal(get_signal(e), g)

on_new_candle(e, g, timestamp, close_price) ==
    on_new_candle_ready(add_candle(e, close_price),
                        [g EXCEPT !.candles_processed = @ + 1])

-----------------------------------------------------------------------------
(* HistoricalDataLoader.  A kline of the response is [T, c]: close time    *)
(* and close price; the request asks for candles_to_request of them.       *)

min_candles_needed(cfg) == cfg.slow_period + cfg.normalization_period - 1
candles_to_request(cfg) == min_candles_needed(cfg) + 1

\* the parsing loop: all but the last kline, those with close <= 0 skipped
RECURSIVE parse_klines(_, _)
parse_klines(klines_data, i) ==
    IF i > Len(klines_data) THEN <<>>
    ELSE IF i = Len(klines_data) THEN <<>>
    ELSE IF klines_data[i].c <= 0 THEN parse_klines(klines_data, i + 1)
    ELSE <<klines_data[i]>> \o parse_klines(klines_data, i + 1)

\* load_historical_candles: the candles, or raised (an empty response, too
\* few candles, a failed request)
load_historical_candles(cfg, request_ok, klines_data) ==
    IF ~request_ok THEN [raised |-> TRUE, candles |-> <<>>]
    ELSE IF klines_data = <<>> THEN [raised |-> TRUE, candles |-> <<>>]
    ELSE LET historical_candles == parse_klines(klines_data, 1)
         IN  IF Len(historical_candles) < min_candles_needed(cfg)
             THEN [raised |-> TRUE, candles |-> <<>>]
             ELSE [raised |-> FALSE, candles |-> historical_candles]

-----------------------------------------------------------------------------
(* DataFeed: the feed's fields in a record f.  ws is "None" until the      *)
(* feed thread has created the socket, then "connecting", "open" or        *)
(* "closed".  A message is [k, x, T, c]: whether it carries a kline,       *)
(* whether the kline is closed, its close time and its close price.        *)

Fd == [is_running |-> is_running,
       reconnect_attempts |-> reconnect_attempts,
       ws |-> ws]

SetFeed(f) ==
    /\ is_running' = f.is_running
    /\ reconnect_attempts' = f.reconnect_attempts
    /\ ws' = f.ws

\* DataFeed.start (the candle callback is set by SignalManager.__init__)
data_feed_start(f) ==
    IF f.is_running THEN f
    ELSE [f EXCEPT !.is_running = TRUE, !.reconnect_attempts = 0]

is_connected(f) == f.ws # "None" /\ f.is_running

\* whether on_message hands the candle to the callback
message_accepted_any(msg) == msg.k /\ msg.x
message_accepted(msg) == msg.k /\ msg.x /\ ~(msg.c <= 0)

\* on_message, whole: the callback is the gateway's on_new_candle
on_message(e, g, msg) ==
    IF message_accepted(msg)
    THEN on_new_candle(e, g, msg.T, msg.c)
    ELSE [e |-> e, g |-> g, current_signal |-> NONE, event |-> NONE]

-----------------------------------------------------------------------------
(* Bounds and inputs.                                                      *)

MaxLive == 4            \* live candles delivered in one run of Spec
MaxTs == 2              \* live close times are drawn from 1..MaxTs

\* NSMConfig as load_config accepts it: positive periods, fast < slow
FlatConfig ==
    [fast_period |-> 1, slow_period |-> 2,
     smoothing_period |-> 1, normalization_period |-> 1]
SmallConfig ==
    [fast_period |-> 1, slow_period |-> 2,
     smoothing_period |-> 3, normalization_period |-> 2]

Prices == {1, 2}                \* valid close prices
BadPrices == {0, -5}            \* close prices the code must reject
Timestamps == 1..MaxTs

\* responses of the klines request: at most candles_to_request klines, in
\* time order, any of which may carry a bad price
Klines(n) == [1..n -> Prices \cup {0}]
\* close times count from the start of the feed: those of the history are
\* -n+1 .. 0
kline_response(cs) ==
    [i \in 1..Len(cs) |-> [T |-> i - Len(cs), c |-> cs[i]]]

Messages ==
    [k : BOOLEAN, x : BOOLEAN, T : Timestamps, c : Prices \cup BadPrices]

NoCall == [op |-> "none"]

InitEngine(cfg) ==
    /\ config = cfg
    /\ prices = <<>>
    /\ fast_ema_values = <<>>
    /\ slow_ema_values = <<>>
    /\ macd_history = <<>>
    /\ smoothed_history = <<>>
    /\ smoothed_val = RInt(0)
    /\ historical_initialization = TRUE
    /\ current_trend = None

InitWith(cfg) ==
    /\ InitEngine(cfg)
    /\ last_signal = None
    /\ candles_processed = 0
    /\ signals_generated = 0
    /\ is_running = FALSE
    /\ reconnect_attempts = 0
    /\ ws = "None"
    /\ pc = "init"
    /\ pending = <<>>
    /\ feed_pc = "idle"
    /\ feed_candle = NoValue
    /\ status_pc = "idle"
    /\ status = NoValue
    /\ call = NoCall
    /\ hist_count = -1
    /\ last_ts = -candles_to_request(cfg)   \* before any kline
    /\ trace = <<>>

Init == InitWith(SmallConfig)

\* either configuration
InitConfigs == \E cfg \in {SmallConfig, FlatConfig} : InitWith(cfg)

-----------------------------------------------------------------------------
(* SignalManager.start on the main thread, step by step: the load, one     *)
(* add_candle per historical candle, finish_historical_loading, then       *)
(* data_feed.start().                                                      *)

StartLoad ==
    /\ pc = "init"
    /\ \E request_ok \in BOOLEAN, n \in 0..candles_to_request(config) :
         \E cs \in Klines(n) :
           \E r \in {load_historical_candles(config, request_ok,
                                              kline_response(cs))} :
               /\ pc' = IF r.raised THEN "failed" ELSE "ingest"
               /\ pending' = r.candles
               /\ call' = [op |-> "load_historical_candles",
                           request_ok |-> request_ok,
                           received |-> Len(parse_klines(kline_response(cs),
                                                         1)),
                           raised |-> r.raised]
    /\ UNCHANGED <<config, engine, gateway, feed, threads, hist_count,
                   last_ts, trace>>

StartIngest ==
    /\ pc = "ingest"
    /\ pending # <<>>
    /\ \E e \in {add_candle(Eng, Head(pending).c)} : SetEngine(e)
    /\ pending' = Tail(pending)
    /\ last_ts' = Head(pending).T
    /\ UNCHANGED <<config, gateway, feed, pc, threads, call, hist_count,
                   trace>>

StartFinish ==
    /\ pc = "ingest"
    /\ pending = <<>>
    /\ \E e \in {finish_historical_loading(Eng)} : SetEngine(e)
    /\ hist_count' = Len(prices)
    /\ pc' = "finished"
    /\ UNCHANGED <<config, gateway, feed, pending, threads, call, last_ts,
                   trace>>

\* a variant of the last step that does not wait for the warm-up to finish
StartFeed_early ==
    /\ pc \in {"ingest", "finished"}
    /\ \E f \in {data_feed_start(Fd)} : SetFeed(f)
    /\ pc' = "live"
    /\ UNCHANGED <<config, engine, gateway, pending, threads, ghost>>

StartFeed ==
    /\ pc = "finished"
    /\ \E f \in {data_feed_start(Fd)} : SetFeed(f)
    /\ pc' = "live"
    /\ UNCHANGED <<config, engine, gateway, pending, threads, ghost>>

(* The feed thread: _connect creates the socket, on_open, on_message.      *)

FeedConnect ==
    /\ is_running
    /\ ws = "None"
    /\ ws' = "connecting"
    /\ UNCHANGED <<config, engine, gateway, is_running, reconnect_attempts,
                   pc, pending, threads, ghost>>

OnOpen ==
    /\ ws = "connecting"
    /\ ws' = "open"
    /\ reconnect_attempts' = 0
    /\ UNCHANGED <<config, engine, gateway, is_running, pc, pending, threads,
                   ghost>>

\* what the trace keeps of one on_new_candle: the trend and the gateway's
\* last_signal before it, the
\* number of smoothed values after it, what get_signal returned and the
\* event the gateway logged
TraceEntry(before, r) ==
    [before |-> before.current_trend,
     last_before |-> last_signal,
     n |-> Len(r.e.smoothed_history),
     signal |-> r.current_signal,
     event |-> r.event]

\* on_message run by the feed thread on an open socket
OnMessageStep(msg) ==
    /\ ws = "open"
    /\ \E r \in {on_message(Eng, Gw, msg)} :
           /\ SetEngine(r.e)
           /\ SetGateway(r.g)
           /\ trace' = IF message_accepted(msg)
                       THEN Append(trace, TraceEntry(Eng, r))
                       ELSE trace
           /\ last_ts' = IF message_accepted(msg) THEN msg.T ELSE last_ts
    /\ UNCHANGED <<config, feed, pc, pending, threads, call, hist_count>>

OnMessage(msg) ==
    /\ candles_processed < MaxLive
    /\ OnMessageStep(msg)

Next ==
    \/ StartLoad
    \/ StartIngest
    \/ StartFinish
    \/ StartFeed
    \/ FeedConnect
    \/ OnOpen
    \/ \E msg \in Messages : OnMessage(msg)

Spec == Init /\ [][Next]_vars

(* Properties of the program, checked under Spec.                          *)

\* C8: the feed is started, and a live candle ingested, only once start has
\* ingested every historical candle it loaded and finish_historical_loading
\* has run; when the load fails nothing is ingested and the feed is never
\* started.
C8_HandoffOrdering ==
    /\ (is_running \/ ws # "None" \/ candles_processed > 0 \/ trace # <<>>) =>
           /\ pc = "live"
           /\ pending = <<>>
           /\ ~historical_initialization
           /\ hist_count = min_candles_needed(config)
           /\ Len(prices) = hist_count + Len(trace)
    /\ pc = "failed" =>
           /\ ~is_running
           /\ ws = "None"
           /\ prices = <<>>
           /\ candles_processed = 0
           /\ historical_initialization

C8_Witness ==
    /\ pc = "live"
    /\ ws = "open"
    /\ hist_count = min_candles_needed(config)
    /\ Len(trace) >= 2
    /\ Len(prices) = hist_count + Len(trace)
    /\ signals_generated >= 1

\* C11: when the request succeeds and the batch holds fewer than
\* slow_period + normalization_period - 1 candles, start does not fail.
C11_UnderProvisioningNotFatal ==
    (/\ call.op = "load_historical_candles"
     /\ call.request_ok
     /\ call.received < min_candles_needed(config)) =>
        pc # "failed"

\* what start does with such a batch: load_historical_candles raises, start
\* re-raises, nothing is ingested, the engine stays in warm-up mode and the
\* feed is not started
C11_UnderProvisioningFails ==
    (/\ call.op = "load_historical_candles"
     /\ call.request_ok
     /\ call.received < min_candles_needed(config)) =>
        /\ pc = "failed"
        /\ call.raised
        /\ prices = <<>>
        /\ historical_initialization
        /\ ~is_running

\* a batch one candle short of the minimum has stopped start
C11_Witness ==
    /\ call.op = "load_historical_candles"
    /\ call.request_ok
    /\ call.received = min_candles_needed(config) - 1
    /\ call.received > 0
    /\ pc = "failed"
    /\ ~is_running

-----------------------------------------------------------------------------
(* SpecEdge: the program as above on a long live run: every message is a   *)
(* closed kline with a valid close price.                                  *)

MaxEdgeLive == 10       \* live candles delivered in one run of SpecEdge

EdgeMessages == {msg \in Messages : message_accepted(msg) /\ msg.T = 1}

EdgeOnMessage(msg) ==
    /\ Len(trace) < MaxEdgeLive
    /\ OnMessageStep(msg)

NextEdge ==
    \/ StartLoad
    \/ StartIngest
    \/ StartFinish
    \/ StartFeed
    \/ FeedConnect
    \/ OnOpen
    \/ \E msg \in EdgeMessages : EdgeOnMessage(msg)

SpecEdge == Init /\ [][NextEdge]_vars

(* Properties of a live run, checked under SpecEdge.                       *)

\* whether the smoothed value appended by live step i is above / below the
\* one before it
Rises(i) ==
    /\ trace[i].n >= 2
    /\ RLt(smoothed_history[trace[i].n - 1], smoothed_history[trace[i].n])
Falls(i) ==
    /\ trace[i].n >= 2
    /\ RLt(smoothed_history[trace[i].n], smoothed_history[trace[i].n - 1])

\* live steps i < j that emitted, with no emission between them
ConsecutiveSignals(i, j) ==
    /\ i < j
    /\ trace[i].signal # NONE
    /\ trace[j].signal # NONE
    /\ \A k \in (i + 1)..(j - 1) : trace[k].signal = NONE

\* C2: over a live run get_signal returns LONG only on a step whose smoothed
\* value is above the previous one and with current_trend not LONG before
\* it, SHORT only on a step whose smoothed value is below and with
\* current_trend not SHORT; the gateway logs exactly what get_signal
\* returned, and two consecutive events never have the same direction.
C2_EdgeTriggered ==
    /\ \A i \in 1..Len(trace) :
           /\ trace[i].signal = LONG =>
                  Rises(i) /\ trace[i].before # LONG
           /\ trace[i].signal = SHORT =>
                  Falls(i) /\ trace[i].before # SHORT
           /\ trace[i].event = trace[i].signal
    /\ \A i, j \in 1..Len(trace) :
           ConsecutiveSignals(i, j) => trace[i].signal # trace[j].signal

\* a run with a LONG, a SHORT and a LONG again, and a rising step that
\* emitted nothing because the trend was LONG already
C2_Witness ==
    /\ \E i, j, k \in 1..Len(trace) :
           /\ ConsecutiveSignals(i, j)
           /\ ConsecutiveSignals(j, k)
           /\ trace[i].event = LONG
           /\ trace[j].event = SHORT
           /\ trace[k].event = LONG
    /\ \E i \in 1..Len(trace) :
           Rises(i) /\ trace[i].before = LONG /\ trace[i].signal = NONE

\* live steps i .. i+9: five rising steps, then five falling steps
RiseFall(i) ==
    /\ i + 9 <= Len(trace)
    /\ \A k \in i..(i + 4) : Rises(k)
    /\ \A k \in (i + 5)..(i + 9) : Falls(k)

\* C3 as stated: over five rising then five falling live steps a LONG is
\* logged at the first rising step, a SHORT at the first falling step, and
\* nothing at the other eight.
C3_OneLongOneShort ==
    \A i \in 1..Len(trace) :
        RiseFall(i) =>
            /\ trace[i].event = LONG
            /\ trace[i + 5].event = SHORT
            /\ \A k \in ((i + 1)..(i + 4)) \cup ((i + 6)..(i + 9)) :
                   trace[k].event = NONE

\* C3: over five rising then five falling live steps a SHORT is logged at
\* the first falling step; a LONG is logged at the first rising step exactly
\* when current_trend was not LONG before that step; the other eight steps
\* log nothing.
C3_OneShortAndLongUnlessTrending ==
    \A i \in 1..Len(trace) :
        RiseFall(i) =>
            /\ trace[i].event = IF trace[i].before = LONG THEN NONE ELSE LONG
            /\ trace[i + 5].event = SHORT
            /\ \A k \in ((i + 1)..(i + 4)) \cup ((i + 6)..(i + 9)) :
                   trace[k].event = NONE

\* the first ten live steps rise five times and fall five times after a
\* warm-up that ended with a falling pair
C3_Witness ==
    /\ RiseFall(1)
    /\ trace[1].before = SHORT
    /\ trace[1].event = LONG
    /\ trace[6].event = SHORT
    /\ signals_generated = 2

\* the same steps after a warm-up that ended with a rising pair: no LONG
C3_LongTrendWitness ==
    /\ RiseFall(1)
    /\ trace[1].before = LONG
    /\ signals_generated = 1

\* C19: in a run of the program every LONG or SHORT that get_signal returns
\* differs from the gateway's last_signal at that moment, so the gateway
\* logs it: signals_generated is the number of such results, last_signal is
\* the engine's current_trend once an event has fired, and
\* signals_generated <= candles_processed.
C19_DedupNeverSuppresses ==
    /\ \A i \in 1..Len(trace) :
           trace[i].signal # NONE =>
               /\ trace[i].signal # trace[i].last_before
               /\ trace[i].event = trace[i].signal
    /\ signals_generated
           = Cardinality({i \in 1..Len(trace) : trace[i].signal # NONE})
    /\ signals_generated >= 1 => last_signal = current_trend
    /\ signals_generated = 0 => last_signal = None
    /\ signals_generated <= candles_processed
    /\ candles_processed = Len(trace)

\* four events in one run, the first of them a SHORT after a warm-up that
\* ended on a rising pair
C19_Witness ==
    /\ signals_generated >= 4
    /\ signals_generated < candles_processed
    /\ \E i \in 1..Len(trace) :
           /\ trace[i].signal = SHORT
           /\ trace[i].last_before = None
           /\ trace[i].before = LONG

-----------------------------------------------------------------------------
(* SpecConc: the two threads of the running program.  The feed thread runs *)
(* on_new_candle statement by statement; the main thread runs get_status,  *)
(* reading one field per step.  Neither takes a lock, so the steps         *)
(* interleave freely.  call keeps, for the get_status under way, the       *)
(* values a get_status would return at each moment the feed thread was     *)
(* between two candles.                                                    *)

MaxConcLive == 2        \* live candles delivered in one run of SpecConc

\* the five values of get_status that the gateway and the engine determine
Snapshot(e, g) ==
    [ready |-> is_ready(e),
     candles_processed |-> g.candles_processed,
     signals_generated |-> g.signals_generated,
     last_signal |-> g.last_signal,
     value |-> get_current_value(e)]

\* the feed thread is back between two candles
FeedReturn(e, g) ==
    /\ feed_pc' = "idle"
    /\ call' = IF status_pc \in {"idle", "done"} THEN call
               ELSE [call EXCEPT !.quiet = @ \cup {Snapshot(e, g)}]

\* on_message has accepted the candle and calls on_new_candle
FeedReceive(msg) ==
    /\ ws = "open"
    /\ feed_pc = "idle"
    /\ candles_processed < MaxConcLive
    /\ feed_pc' = "add_candle"
    /\ feed_candle' = [T |-> msg.T, c |-> msg.c,
                       before |-> Snapshot(Eng, Gw),
                       current_signal |-> NONE]
    /\ UNCHANGED <<config, engine, gateway, feed, pc, pending, status_pc,
                   status, ghost>>

\* signal_manager.py line 42
FeedAddCandle ==
    /\ feed_pc = "add_candle"
    /\ \E e \in {add_candle(Eng, feed_candle.c)} : SetEngine(e)
    /\ feed_pc' = "count"
    /\ UNCHANGED <<config, gateway, feed, pc, pending, feed_candle,
                   status_pc, status, ghost>>

\* line 43
FeedCount ==
    /\ feed_pc = "count"
    /\ candles_processed' = candles_processed + 1
    /\ feed_pc' = "get_signal"
    /\ UNCHANGED <<config, engine, last_signal, signals_generated, feed, pc,
                   pending, feed_candle, status_pc, status, ghost>>

\* lines 52-58
FeedGetSignal ==
    /\ feed_pc = "get_signal"
    /\ IF ~is_ready(Eng)
       THEN /\ FeedReturn(Eng, Gw)
            /\ UNCHANGED <<engine, feed_candle>>
       ELSE \E r \in {get_signal(Eng)} :
              /\ SetEngine(r.e)
              /\ feed_candle' = [feed_candle EXCEPT !.current_signal = r.ret]
              /\ IF r.ret # NONE /\ r.ret # last_signal
                 THEN feed_pc' = "signals_generated" /\ UNCHANGED call
                 ELSE FeedReturn(r.e, Gw)
    /\ UNCHANGED <<config, gateway, feed, pc, pending, status_pc, status,
                   hist_count, last_ts, trace>>

\* line 59
FeedSignalsGenerated ==
    /\ feed_pc = "signals_generated"
    /\ signals_generated' = signals_generated + 1
    /\ feed_pc' = "last_signal"
    /\ UNCHANGED <<config, engine, last_signal, candles_processed, feed, pc,
                   pending, feed_candle, status_pc, status, ghost>>

\* line 66
FeedLastSignal ==
    /\ feed_pc = "last_signal"
    /\ last_signal' = feed_candle.current_signal
    /\ FeedReturn(Eng, [Gw EXCEPT !.last_signal = feed_candle.current_signal])
    /\ UNCHANGED <<config, engine, candles_processed, signals_generated,
                   feed, pc, pending, feed_candle, status_pc, status,
                   hist_count, last_ts, trace>>

\* main.py line 56: get_status is entered; its first entry is is_connected()
StatusConnected ==
    /\ pc = "live"
    /\ status_pc = "idle"
    /\ status' = [connected |-> is_connected(Fd)]
    /\ status_pc' = "ready"
    /\ call' = [op |-> "get_status",
                quiet |-> {IF feed_pc = "idle" THEN Snapshot(Eng, Gw)
                           ELSE feed_candle.before}]
    /\ UNCHANGED <<config, engine, gateway, feed, pc, pending, feed_pc,
                   feed_candle, hist_count, last_ts, trace>>

\* one more entry of the dictionary is evaluated
StatusRead(at, value, then) ==
    /\ status_pc = at
    /\ status' = [k \in DOMAIN status \cup {at} |->
                      IF k = at THEN value ELSE status[k]]
    /\ status_pc' = then
    /\ UNCHANGED <<config, engine, gateway, feed, pc, pending, feed_pc,
                   feed_candle, ghost>>

StatusReady ==
    StatusRead("ready", is_ready(Eng), "candles_processed")
StatusCandlesProcessed ==
    StatusRead("candles_processed", candles_processed, "signals_generated")
StatusSignalsGenerated ==
    StatusRead("signals_generated", signals_generated, "last_signal")
StatusLastSignal ==
    StatusRead("last_signal", last_signal, "value")
StatusValue ==
    StatusRead("value", get_current_value(Eng), "done")

\* the dictionary is returned to the main loop
StatusReturn ==
    /\ status_pc = "done"
    /\ status_pc' = "idle"
    /\ status' = NoValue
    /\ call' = NoCall
    /\ UNCHANGED <<config, engine, gateway, feed, pc, pending, feed_pc,
                   feed_candle, hist_count, last_ts, trace>>

NextConc ==
    \/ StartLoad
    \/ StartIngest
    \/ StartFinish
    \/ StartFeed
    \/ FeedConnect
    \/ OnOpen
    \/ \E msg \in EdgeMessages : FeedReceive(msg)
    \/ FeedAddCandle
    \/ FeedCount
    \/ FeedGetSignal
    \/ FeedSignalsGenerated
    \/ FeedLastSignal
    \/ StatusConnected
    \/ StatusReady
    \/ StatusCandlesProcessed
    \/ StatusSignalsGenerated
    \/ StatusLastSignal
    \/ StatusValue
    \/ StatusReturn

SpecConc == InitConfigs /\ [][NextConc]_vars

(* Properties of the two threads, checked under SpecConc.                  *)

\* the five values of the dictionary get_status has built
StatusSnapshot ==
    [k \in DOMAIN status \ {"connected"} |-> status[k]]

\* C7: the values get_status returns are those of a moment at which the
\* feed thread was between two candles: before or after each whole
\* on_new_candle that overlapped the call, never inside one.
C7_StatusSnapshotConsistent ==
    status_pc = "done" => StatusSnapshot \in call.quiet

\* a dictionary that counts the signal of a candle while last_signal is
\* still unset, and one that reports the smoothed value of a candle
\* candles_processed does not count yet
C7_Witness ==
    /\ status_pc = "done"
    /\ \/ /\ status.signals_generated = 1
          /\ status.last_signal = None
       \/ /\ status.candles_processed = 0
          /\ Len(prices) = hist_count + 1
          /\ status.value = Last(smoothed_history)
          /\ status.value # feed_candle.before.value
    /\ StatusSnapshot \notin call.quiet

-----------------------------------------------------------------------------
(* SpecEngine: NSMIndicator on its own, its methods called in any order    *)
(* (finish_historical_loading once).  call keeps the engine before the     *)
(* call, the argument and the value returned.                              *)

MaxPrices == 5          \* add_candle calls that are accepted in one run

EngAddCandle(close_price) ==
    /\ Len(prices) < MaxPrices
    /\ \E e \in {add_candle(Eng, close_price)} : SetEngine(e)
    /\ call' = [op |-> "add_candle", close_price |-> close_price,
                before |-> Eng, ret |-> None]
    /\ UNCHANGED <<config, gateway, feed, pc, pending, threads, hist_count,
                   last_ts, trace>>

EngFinish ==
    /\ historical_initialization
    /\ \E e \in {finish_historical_loading(Eng)} : SetEngine(e)
    /\ call' = [op |-> "finish_historical_loading", close_price |-> 0,
                before |-> Eng, ret |-> None]
    /\ hist_count' = Len(prices)
    /\ UNCHANGED <<config, gateway, feed, pc, pending, threads, last_ts,
                   trace>>

EngGetSignal ==
    /\ \E r \in {get_signal(Eng)} :
           /\ SetEngine(r.e)
           /\ call' = [op |-> "get_signal", close_price |-> 0,
                       before |-> Eng, ret |-> r.ret]
    /\ UNCHANGED <<config, gateway, feed, pc, pending, threads, hist_count,
                   last_ts, trace>>

NextEngine ==
    \/ \E close_price \in Prices \cup BadPrices : EngAddCandle(close_price)
    \/ EngFinish
    \/ EngGetSignal

SpecEngine == Init /\ [][NextEngine]_vars

(* Properties of the engine, checked under SpecEngine.                     *)

\* the direction the last two entries of a smoothed history imply
Implied(sh) ==
    IF RLt(sh[Len(sh) - 1], sh[Len(sh)]) THEN LONG
    ELSE IF RLt(sh[Len(sh)], sh[Len(sh) - 1]) THEN SHORT
    ELSE NONE

\* C4: add_candle with a price <= 0 leaves every field of the engine as it
\* was, so get_stats() and get_current_value() return what they returned
\* before the call.
C4_RejectedPriceChangesNothing ==
    (call.op = "add_candle" /\ call.close_price <= 0) =>
        /\ Eng = call.before
        /\ get_stats(Eng) = get_stats(call.before)
        /\ get_current_value(Eng) = get_current_value(call.before)

C4_Witness ==
    /\ call.op = "add_candle"
    /\ call.close_price = -5
    /\ Len(call.before.smoothed_history) >= 2
    /\ ~historical_initialization
    /\ current_trend = SHORT

\* C9: finish_historical_loading assigns current_trend the direction of the
\* last two smoothed values when there are two, switches the engine to live
\* mode, returns nothing, and changes no history and no gateway counter.
C9_FinishIsSilentAssignment ==
    call.op = "finish_historical_loading" =>
        /\ historical_initialization = FALSE
        /\ Len(smoothed_history) >= 2 =>
               current_trend = Implied(smoothed_history)
        /\ prices = call.before.prices
        /\ fast_ema_values = call.before.fast_ema_values
        /\ slow_ema_values = call.before.slow_ema_values
        /\ macd_history = call.before.macd_history
        /\ smoothed_history = call.before.smoothed_history
        /\ smoothed_val = call.before.smoothed_val
        /\ call.ret = None
        /\ Gw = SignalManager

C9_Witness ==
    /\ call.op = "finish_historical_loading"
    /\ Len(smoothed_history) >= 2
    /\ smoothed_history[Len(smoothed_history)]
           = smoothed_history[Len(smoothed_history) - 1]
    /\ call.before.current_trend = None
    /\ current_trend = NONE

\* C10: after finish_historical_loading with no price ingested current_trend
\* is unset; while it is unset, get_signal returns the direction of the last
\* two smoothed values as soon as that direction is LONG or SHORT (and
\* assigns it), and returns NONE, leaving the trend unset, before that.
C10_FirstLiveDirectionAlwaysFires ==
    /\ (call.op = "finish_historical_loading" /\ hist_count = 0) =>
           current_trend = None
    /\ (call.op = "get_signal" /\ hist_count = 0
          /\ call.before.current_trend = None) =>
           IF Len(smoothed_history) >= 2 /\ Implied(smoothed_history) # NONE
           THEN /\ call.ret = Implied(smoothed_history)
                /\ current_trend = call.ret
           ELSE /\ call.ret = NONE
                /\ current_trend = None

C10_Witness ==
    /\ call.op = "get_signal"
    /\ hist_count = 0
    /\ call.before.current_trend = None
    /\ call.ret = SHORT
    /\ Len(smoothed_history) >= 3
    /\ smoothed_history[2] = smoothed_history[1]

\* whether s is an initial part of t
IsPrefix(s, t) == Len(s) <= Len(t) /\ SubSeq(t, 1, Len(s)) = s

\* C13: over add_candle (valid or rejected prices),
\* finish_historical_loading and get_signal in any order, every step keeps
\* the smoothed values already present, so once is_ready() is true it is
\* true after every later step.
C13_ReadyStaysReady ==
    [][/\ IsPrefix(smoothed_history, smoothed_history')
       /\ is_ready(Eng) => is_ready(Eng)']_vars

\* ready before and after a get_signal that returned a signal, the engine
\* holding MaxPrices prices
C13_Witness ==
    /\ call.op = "get_signal"
    /\ call.ret # NONE
    /\ is_ready(call.before)
    /\ is_ready(Eng)
    /\ Len(prices) = MaxPrices

\* C17: in live mode get_signal changes current_trend exactly when it
\* returns LONG or SHORT, and current_trend is then what it returned; with
\* a direction that is NONE or equal to current_trend the trend stays;
\* add_candle never changes current_trend; get_signal changes nothing else.
C17_TrendChangesOnlyWithEvent ==
    /\ (call.op = "get_signal" /\ ~call.before.historical_initialization) =>
           /\ (current_trend # call.before.current_trend) <=> (call.ret # NONE)
           /\ call.ret # NONE => current_trend = call.ret
           /\ (/\ Len(smoothed_history) >= 2
               /\ Implied(smoothed_history)
                      \in {NONE, call.before.current_trend}) =>
                  /\ call.ret = NONE
                  /\ current_trend = call.before.current_trend
           /\ [Eng EXCEPT !.current_trend = call.before.current_trend]
                  = call.before
    /\ call.op = "add_candle" => current_trend = call.before.current_trend

\* a get_signal that turned a LONG trend into SHORT
C17_Witness ==
    /\ call.op = "get_signal"
    /\ call.before.current_trend = LONG
    /\ call.ret = SHORT
    /\ current_trend = SHORT
    /\ hist_count >= 3

-----------------------------------------------------------------------------
(* SpecGateway: the SignalManager driven through its public methods: start *)
(* (its steps as above), then on_new_candle called directly with any       *)
(* close time and close price, and the engine's get_signal called at any   *)
(* moment.  call keeps the engine and the gateway before and after the     *)
(* call.                                                                   *)

MaxGwLive == 3          \* on_new_candle calls in one run of SpecGateway

\* on_new_candle called by a user of the gateway
GwOnNewCandleCall(timestamp, close_price) ==
    /\ \E r \in {on_new_candle(Eng, Gw, timestamp, close_price)} :
           /\ SetEngine(r.e)
           /\ SetGateway(r.g)
           /\ call' = [op |-> "on_new_candle",
                       timestamp |-> timestamp,
                       close_price |-> close_price,
                       prev_ts |-> last_ts,
                       before_e |-> Eng, before_g |-> Gw,
                       after_e |-> r.e, after_g |-> r.g,
                       ret |-> r.event]
           /\ last_ts' = IF r.e.prices # prices THEN timestamp ELSE last_ts
    /\ UNCHANGED <<config, feed, pc, pending, threads, hist_count, trace>>

\* on_new_candle called once start has returned
GwOnNewCandleStep(timestamp, close_price) ==
    /\ pc = "live"
    /\ GwOnNewCandleCall(timestamp, close_price)

GwOnNewCandle(timestamp, close_price) ==
    /\ candles_processed < MaxGwLive
    /\ GwOnNewCandleStep(timestamp, close_price)

GwGetSignal ==
    /\ \E r \in {get_signal(Eng)} :
           /\ SetEngine(r.e)
           /\ call' = [op |-> "get_signal",
                       timestamp |-> 0,
                       close_price |-> 0,
                       prev_ts |-> last_ts,
                       before_e |-> Eng, before_g |-> Gw,
                       after_e |-> r.e, after_g |-> Gw,
                       ret |-> r.ret]
    /\ UNCHANGED <<config, gateway, feed, pc, pending, threads, hist_count,
                   last_ts, trace>>

NextGateway ==
    \/ StartLoad
    \/ StartIngest
    \/ StartFinish
    \/ StartFeed
    \/ \E timestamp \in Timestamps, close_price \in Prices \cup BadPrices :
         GwOnNewCandle(timestamp, close_price)
    \/ GwGetSignal

SpecGateway == InitConfigs /\ [][NextGateway]_vars

(* Properties of the gateway, checked under SpecGateway.                    *)

\* C1: the warm-up emits nothing: until on_new_candle is called for a live
\* candle the gateway has signals_generated = 0 and last_signal unset, and a
\* get_signal made while historical_initialization is true or with fewer
\* than 2 smoothed values returns NONE and leaves current_trend (and the
\* gateway) as it was.
C1_WarmupIsSilent ==
    /\ candles_processed = 0 =>
           /\ signals_generated = 0
           /\ last_signal = None
    /\ (/\ call.op = "get_signal"
        /\ \/ call.before_e.historical_initialization
           \/ Len(call.before_e.smoothed_history) < 2) =>
           /\ call.ret = NONE
           /\ call.after_e.current_trend = call.before_e.current_trend
           /\ call.after_g = call.before_g

\* start has returned after a volatile history during which get_signal was
\* asked, with two smoothed values that differ, and stayed silent
C1_Witness ==
    /\ pc = "live"
    /\ candles_processed = 0
    /\ call.op = "get_signal"
    /\ call.before_e.historical_initialization
    /\ Len(call.before_e.smoothed_history) >= 2
    /\ Implied(call.before_e.smoothed_history) # NONE
    /\ current_trend \in {LONG, SHORT}

\* C5: on_new_candle with close = -5 changes nothing: candles_processed is
\* not incremented, signals_generated and last_signal stay, no event, and
\* the engine is as before.
C5_NegativeLiveCandleRejected ==
    (call.op = "on_new_candle" /\ call.close_price = -5) =>
        /\ call.after_g.candles_processed = call.before_g.candles_processed
        /\ call.after_g.signals_generated = call.before_g.signals_generated
        /\ call.after_g.last_signal = call.before_g.last_signal
        /\ call.ret = NONE
        /\ call.after_e = call.before_e

\* what on_new_candle does with close = -5: the engine and the signal
\* fields stay, no event, and candles_processed counts the candle
C5_NegativeLiveCandleCounted ==
    (call.op = "on_new_candle" /\ call.close_price = -5) =>
        /\ call.after_g.candles_processed
               = call.before_g.candles_processed + 1
        /\ call.after_g.signals_generated = call.before_g.signals_generated
        /\ call.after_g.last_signal = call.before_g.last_signal
        /\ call.ret = NONE
        /\ call.after_e = call.before_e

C5_Witness ==
    /\ call.op = "on_new_candle"
    /\ call.close_price = -5
    /\ hist_count = min_candles_needed(config)
    /\ call.before_g.candles_processed = 0
    /\ candles_processed = 1
    /\ Eng = call.before_e

\* C6: on_new_candle with a close time lower than that of the candle
\* ingested last changes nothing in the engine and the gateway and logs no
\* event.
C6_OutOfOrderCandleRejected ==
    (call.op = "on_new_candle" /\ call.timestamp < call.prev_ts) =>
        /\ call.after_e = call.before_e
        /\ call.after_g = call.before_g
        /\ call.ret = NONE

\* an older candle with a valid price has been appended to the price
\* history and has moved the smoothed value
C6_Witness ==
    /\ call.op = "on_new_candle"
    /\ call.timestamp < call.prev_ts
    /\ call.close_price > 0
    /\ Len(call.after_e.prices) = Len(call.before_e.prices) + 1
    /\ call.after_e.smoothed_val # call.before_e.smoothed_val
    /\ call.after_g.candles_processed = call.before_g.candles_processed + 1

-----------------------------------------------------------------------------
(* SpecScenario: the gateway with fast 3, slow 5, smoothing 3 and          *)
(* normalization 4.  The history is the eight closed candles of a ramp     *)
(* that starts at 10 (10, 11, .., 17 when it climbs by 1); live candles    *)
(* then arrive through on_new_candle.                                      *)

MaxScenarioLive == 2    \* on_new_candle calls in one run of SpecScenario

ScenarioConfig ==
    [fast_period |-> 3, slow_period |-> 5,
     smoothing_period |-> 3, normalization_period |-> 4]

RampSteps == {-1, 0, 1, 2}
ScenarioLivePrices == 16..20

\* the klines of a ramp: candles_to_request of them, the last one unclosed
ramp_response(cfg, step) ==
    [i \in 1..candles_to_request(cfg) |->
        [T |-> i - candles_to_request(cfg), c |-> 10 + step * (i - 1)]]

InitScenario == InitWith(ScenarioConfig)

ScenarioLoad ==
    /\ pc = "init"
    /\ \E step \in RampSteps :
         \E r \in {load_historical_candles(config, TRUE,
                                           ramp_response(config, step))} :
             /\ pc' = IF r.raised THEN "failed" ELSE "ingest"
             /\ pending' = r.candles
    /\ UNCHANGED <<config, engine, gateway, feed, threads, ghost>>

ScenarioOnNewCandle(timestamp, close_price) ==
    /\ candles_processed < MaxScenarioLive
    /\ GwOnNewCandleStep(timestamp, close_price)

NextScenario ==
    \/ ScenarioLoad
    \/ StartIngest
    \/ StartFinish
    \/ StartFeed
    \/ \E close_price \in ScenarioLivePrices :
         ScenarioOnNewCandle(1, close_price)

SpecScenario == InitScenario /\ [][NextScenario]_vars

(* Properties of the scenario, checked under SpecScenario.                 *)

\* the first live candle, 18, after the history 10, 11, .., 17
AfterRampTo17(close_price) ==
    /\ call.op = "on_new_candle"
    /\ call.close_price = close_price
    /\ call.before_g.candles_processed = 0
    /\ call.before_e.prices = [i \in 1..8 |-> RInt(9 + i)]

\* C12 as stated: the live candle 18 logs nothing when current_trend was
\* LONG and logs a LONG when it was SHORT, NONE or unset.
C12_EighteenEmitsLongUnlessLong ==
    AfterRampTo17(18) =>
        call.ret = IF call.before_e.current_trend = LONG THEN NONE ELSE LONG

\* C12: on the history 10 .. 17 every macd value is 1, every smoothed value
\* is 0 and finish_historical_loading leaves current_trend = NONE; the live
\* candle 18 gives macd 1 and smoothed value 0 again, so its direction is
\* NONE: no event, current_trend stays NONE.
C12_EighteenEmitsNothing ==
    AfterRampTo17(18) =>
        /\ call.before_e.macd_history = [i \in 1..4 |-> RInt(1)]
        /\ call.before_e.smoothed_history = [i \in 1..4 |-> RInt(0)]
        /\ call.before_e.current_trend = NONE
        /\ Last(call.after_e.macd_history) = RInt(1)
        /\ Last(call.after_e.smoothed_history) = RInt(0)
        /\ call.ret = NONE
        /\ call.after_e.current_trend = NONE
        /\ call.after_g.signals_generated = 0

C12_Witness ==
    /\ AfterRampTo17(18)
    /\ candles_processed = 1
    /\ Len(prices) = 9
    /\ call.ret = NONE

\* a live candle above the ramp, 19, does log a LONG
C12_NineteenWitness ==
    /\ AfterRampTo17(19)
    /\ call.before_e.current_trend = NONE
    /\ call.ret = LONG

RLe(a, b) == ~RLt(b, a)
InUnitRange(x) == RLe(RInt(-1), x) /\ RLe(x, RInt(1))

\* the window add_candle normalised the k-th macd value over, and the
\* normalised value it computed
WindowAt(k) == recent_macd(config, SubSeq(macd_history, 1, k))
NormalizedAt(k) == normalize(macd_history[k], WindowAt(k))

\* C14: every macd value lies between the minimum and the maximum of its
\* own window, every normalised value lies in [-1, 1], and so does every
\* value of smoothed_history.
C14_Bounded ==
    /\ \A k \in 1..Len(macd_history) :
           /\ RLe(RMin(WindowAt(k)), macd_history[k])
           /\ RLe(macd_history[k], RMax(WindowAt(k)))
           /\ InUnitRange(NormalizedAt(k))
    /\ \A k \in 1..Len(smoothed_history) : InUnitRange(smoothed_history[k])
    /\ InUnitRange(smoothed_val)

\* a macd value strictly inside its window, and smoothed values on both
\* sides of 0
C14_Witness ==
    /\ \E k \in 1..Len(macd_history) :
           /\ RLt(RInt(-1), NormalizedAt(k))
           /\ RLt(NormalizedAt(k), RInt(1))
           /\ NormalizedAt(k) # RInt(0)
    /\ \E k \in 1..Len(smoothed_history) : RLt(RInt(0), smoothed_history[k])
    /\ \E k \in 1..Len(smoothed_history) : RLt(smoothed_history[k], RInt(0))

-----------------------------------------------------------------------------
(* SpecEngineWide: NSMIndicator on its own as in SpecEngine, with prices   *)
(* further apart: after 1, 1 the prices 4, 6 give the same macd value      *)
(* twice while the smoothed value is away from 0.                          *)

WidePrices == {1, 4, 6}

NextEngineWide ==
    \/ \E close_price \in WidePrices : EngAddCandle(close_price)
    \/ EngFinish
    \/ EngGetSignal

SpecEngineWide == Init /\ [][NextEngineWide]_vars

\* whether all the values of a window are equal
Degenerate(w) == \A i, j \in 1..Len(w) : w[i] = w[j]

\* the smoothed value before the k-th one
SmoothedBefore(k) == IF k = 1 THEN RInt(0) ELSE smoothed_history[k - 1]

\* C15: whenever the window a macd value is normalised over holds equal
\* values only, the normalised value is 0 (a number, no division by zero)
\* and the smoothed value moves from val to val + alpha_smooth * (0 - val).
C15_DegenerateWindowGivesZero ==
    /\ Len(smoothed_history) = Len(macd_history)
    /\ \A k \in 1..Len(macd_history) :
           Degenerate(WindowAt(k)) =>
               /\ NormalizedAt(k) = RInt(0)
               /\ ~IsNaN(smoothed_history[k])
               /\ smoothed_history[k] =
                      RAdd(SmoothedBefore(k),
                           RMul(alpha_smooth(config),
                                RSub(RInt(0), SmoothedBefore(k))))

\* a full window of two equal macd values other than 0, met with the
\* smoothed value at 1/2, which it halves
C15_Witness ==
    \E k \in 2..Len(macd_history) :
        /\ Len(WindowAt(k)) = config.normalization_period
        /\ Degenerate(WindowAt(k))
        /\ macd_history[k] # RInt(0)
        /\ SmoothedBefore(k) = R(1, 2)
        /\ smoothed_history[k] = R(1, 4)

-----------------------------------------------------------------------------
(* SpecSequencing: the gateway as in SpecGateway, with on_new_candle also  *)
(* called while start has not yet run finish_historical_loading.           *)

MaxEarly == 1           \* on_new_candle calls made before the live phase

\* start is between two historical candles, or before finish
GwEarlyCandle(timestamp, close_price) ==
    /\ pc = "ingest"
    /\ candles_processed < MaxEarly
    /\ GwOnNewCandleCall(timestamp, close_price)

NextSequencing ==
    \/ NextGateway
    \/ \E close_price \in Prices : GwEarlyCandle(1, close_price)

SpecSequencing == InitConfigs /\ [][NextSequencing]_vars

\* C16: on_new_candle called while historical_initialization is true
\* leaves the price history, the averages and the macd and smoothed
\* histories as they were.
C16_EarlyCandleNotIngested ==
    (call.op = "on_new_candle" /\ call.before_e.historical_initialization) =>
        /\ call.after_e.prices = call.before_e.prices
        /\ call.after_e.fast_ema_values = call.before_e.fast_ema_values
        /\ call.after_e.slow_ema_values = call.before_e.slow_ema_values
        /\ call.after_e.macd_history = call.before_e.macd_history
        /\ call.after_e.smoothed_history = call.before_e.smoothed_history
        /\ call.after_e.smoothed_val = call.before_e.smoothed_val

\* what on_new_candle does with a valid price in warm-up mode: the price is
\* appended and counted, nothing is logged as a signal and the call returns
\* normally
C16_EarlyCandleIngested ==
    (/\ call.op = "on_new_candle"
     /\ call.before_e.historical_initialization
     /\ call.close_price > 0) =>
        /\ call.after_e.prices
               = Append(call.before_e.prices, RInt(call.close_price))
        /\ call.after_e.historical_initialization
        /\ call.after_g.candles_processed
               = call.before_g.candles_processed + 1
        /\ call.ret = NONE

\* a candle ingested between two historical candles, which moved the
\* smoothed value, after which start went on to the live phase
C16_Witness ==
    /\ call.op = "on_new_candle"
    /\ call.before_e.historical_initialization
    /\ Len(call.before_e.prices) >= 1
    /\ Len(call.after_e.smoothed_history)
           = Len(call.before_e.smoothed_history) + 1
    /\ call.after_e.smoothed_val # call.before_e.smoothed_val
    /\ pc = "live"
    /\ hist_count = min_candles_needed(config) + 1

\* C18: with n prices accepted, macd_history and smoothed_history both hold
\* max(0, n - slow_period + 1) values: none before the slow_period-th price,
\* one more with every price from then on, whatever normalization_period
\* is; is_ready() is true exactly when n >= slow_period + 1.
C18_SeedingAndCounting ==
    /\ config.fast_period < config.slow_period
    /\ Len(macd_history) = Max2(0, Len(prices) - config.slow_period + 1)
    /\ Len(smoothed_history) = Len(macd_history)
    /\ is_ready(Eng) <=> Len(prices) >= config.slow_period + 1
    /\ \A i \in 1..Len(prices) :
           /\ IsNaN(slow_ema_values[i]) <=> i < config.slow_period
           /\ IsNaN(fast_ema_values[i]) <=> i < config.fast_period

\* the slow_period-th price has just given the first macd and smoothed
\* value, with the window far from full
C18_Witness ==
    /\ Len(prices) = config.slow_period
    /\ Len(macd_history) = 1
    /\ Len(smoothed_history) = 1
    /\ config.normalization_period > 1
    /\ ~is_ready(Eng)
    /\ ~IsNaN(fast_ema_values[config.fast_period])


\* C20: get_signal called again with no accepted price in between returns
\* NONE and leaves the engine as it is, whether the call before it was made
\* directly or by on_new_candle; and an on_new_candle whose price add_candle
\* rejects, or whose price adds no smoothed value, logs no event and leaves
\* the trend and the signal counter as they were.
C20_GetSignalIdempotent ==
    /\ (/\ call.op \in {"get_signal", "on_new_candle"}
        /\ ~historical_initialization)
           => /\ get_signal(Eng).ret = NONE
              /\ get_signal(Eng).e = Eng
    /\ (/\ call.op = "on_new_candle"
        /\ call.after_e.smoothed_history = call.before_e.smoothed_history)
           => /\ call.ret = NONE
              /\ call.after_e.current_trend = call.before_e.current_trend
              /\ call.after_g.signals_generated
                     = call.before_g.signals_generated
              /\ call.after_g.last_signal = call.before_g.last_signal

\* a rejected live candle on a ready engine whose last two smoothed values
\* differ, after an event has fired: get_signal is evaluated and is silent
C20_Witness ==
    /\ call.op = "on_new_candle"
    /\ pc = "live"
    /\ call.close_price <= 0
    /\ call.after_e.prices = call.before_e.prices
    /\ is_ready(Eng)
    /\ direction(smoothed_history) # NONE
    /\ signals_generated >= 1
    /\ call.ret = NONE

\* an accepted candle that adds no smoothed value, the slow average being
\* undefined still
C20_NoSmoothedWitness ==
    /\ call.op = "on_new_candle"
    /\ call.after_e.prices # call.before_e.prices
    /\ call.after_e.smoothed_history = call.before_e.smoothed_history
    /\ call.ret = NONE

\* get_signal called directly, twice in a row, in live mode on a ready engine
C20_SecondCallWitness ==
    /\ call.op = "get_signal"
    /\ call.before_e = call.after_e
    /\ ~historical_initialization
    /\ is_ready(Eng)
    /\ direction(smoothed_history) # NONE


-----------------------------------------------------------------------------
(* SpecEngineConfigs: the engine's interface as in SpecEngine, started     *)
(* under each of four configurations.                                      *)

MidConfig ==
    [fast_period |-> 2, slow_period |-> 3,
     smoothing_period |-> 2, normalization_period |-> 3]

EngineConfigs == {FlatConfig, SmallConfig, MidConfig, ScenarioConfig}

InitEngineConfigs == \E cfg \in EngineConfigs : InitWith(cfg)

SpecEngineConfigs == InitEngineConfigs /\ [][NextEngine]_vars

\* C21: the first smoothed value is 0 whatever the prices and the
\* configuration: the first macd value is alone in its window, its
\* normalised value is 0, and smoothed_val starts at 0.
C21_FirstSmoothedIsZero ==
    /\ Len(macd_history) >= 1
           => recent_macd(config, SubSeq(macd_history, 1, 1))
                  = <<macd_history[1]>>
    /\ Len(smoothed_history) >= 1 => smoothed_history[1] = RInt(0)
    /\ Len(smoothed_history) = 0 => smoothed_val = RInt(0)

\* a first macd value other than 0 whose smoothed value is 0, followed by a
\* smoothed value other than 0
C21_Witness ==
    /\ Len(smoothed_history) >= 2
    /\ macd_history[1] # RInt(0)
    /\ smoothed_history[1] = RInt(0)
    /\ smoothed_history[2] # RInt(0)
    /\ config.normalization_period > 1


-----------------------------------------------------------------------------
(* SpecFeed: the DataFeed and SignalManager.stop.  The main thread calls   *)
(* start, DataFeed.stop and SignalManager.stop; the feed thread runs       *)
(* _connect and the socket's on_open and on_close.  on_close sleeps        *)
(* reconnect_delay seconds between its test and its call of _connect, so   *)
(* it is two steps and the main thread can act in between.  The socket is  *)
(* "connecting", "open", "closing" (close() was called on it) or "closed". *)
(* start is called on a stopped feed only when its thread has ended.       *)

max_reconnect_attempts == 5

MaxFeedEvents == 8      \* calls and socket events in one run
MaxFeedCalls == 3       \* of them, calls made by the main thread

\* a variant that stops a feed only when the counter is above the maximum
on_close_gt(f) ==
    IF f.is_running /\ f.reconnect_attempts < max_reconnect_attempts
    THEN [f |-> [f EXCEPT !.reconnect_attempts = @ + 1], reconnect |-> TRUE]
    ELSE IF f.reconnect_attempts > max_reconnect_attempts
    THEN [f |-> [f EXCEPT !.is_running = FALSE], reconnect |-> FALSE]
    ELSE [f |-> f, reconnect |-> FALSE]

\* a variant that reconnects whether or not the feed is running
on_close_always(f) ==
    IF f.reconnect_attempts < max_reconnect_attempts
    THEN [f |-> [f EXCEPT !.reconnect_attempts = @ + 1], reconnect |-> TRUE]
    ELSE IF f.reconnect_attempts >= max_reconnect_attempts
    THEN [f |-> [f EXCEPT !.is_running = FALSE], reconnect |-> FALSE]
    ELSE [f |-> f, reconnect |-> FALSE]

\* DataFeed.on_close up to the sleep: the feed, and whether _connect follows
on_close(f) ==
    IF f.is_running /\ f.reconnect_attempts < max_reconnect_attempts
    THEN [f |-> [f EXCEPT !.reconnect_attempts = @ + 1], reconnect |-> TRUE]
    ELSE IF f.reconnect_attempts >= max_reconnect_attempts
    THEN [f |-> [f EXCEPT !.is_running = FALSE], reconnect |-> FALSE]
    ELSE [f |-> f, reconnect |-> FALSE]

\* DataFeed.on_open (the ready callback only logs)
on_open(f) == [f EXCEPT !.reconnect_attempts = 0, !.ws = "open"]

\* DataFeed.stop
data_feed_stop(f) ==
    IF ~f.is_running THEN f
    ELSE [f EXCEPT !.is_running = FALSE,
                   !.ws = IF @ \in {"connecting", "open"} THEN "closing"
                          ELSE @]

\* SignalManager.stop: the feed, and whether the final statistics were logged
signal_manager_stop(f) ==
    IF ~is_connected(f) THEN [f |-> f, logged |-> FALSE]
    ELSE [f |-> data_feed_stop(f), logged |-> TRUE]

\* what the trace keeps of a call or a socket event
FeedEvent(op, before, after, flag) ==
    [op |-> op, before |-> before, after |-> after, flag |-> flag]

FdRecord(ev) ==
    /\ call' = ev
    /\ trace' = Append(trace, ev)
    /\ UNCHANGED <<config, engine, gateway, pc, pending, feed_candle,
                   status_pc, status, hist_count, last_ts>>

\* whether the main thread may make one more call
FdMayCall ==
    /\ Len(trace) < MaxFeedEvents
    /\ Cardinality({k \in 1..Len(trace) :
                        trace[k].op \in {"start", "stop",
                                         "signal_manager_stop"}})
           < MaxFeedCalls

\* DataFeed.start: the thread is created, the socket is not
FdStart ==
    /\ FdMayCall
    /\ is_running \/ (ws \in {"None", "closed"} /\ feed_pc = "idle")
    /\ \E f \in {data_feed_start(Fd)} :
           /\ SetFeed(f)
           /\ feed_pc' = IF is_running THEN feed_pc ELSE "spawned"
           /\ FdRecord(FeedEvent("start", Fd, f, ~is_running))

\* _connect, called by the new thread or by on_close after its sleep
FdConnect ==
    /\ feed_pc \in {"spawned", "sleep"}
    /\ ws' = "connecting"
    /\ feed_pc' = "idle"
    /\ UNCHANGED <<config, engine, gateway, is_running, reconnect_attempts,
                   pc, pending, feed_candle, status_pc, status, ghost>>

FdOnOpen ==
    /\ Len(trace) < MaxFeedEvents
    /\ ws = "connecting"
    /\ feed_pc = "idle"
    /\ \E f \in {on_open(Fd)} :
           /\ SetFeed(f)
           /\ FdRecord(FeedEvent("on_open", Fd, f, FALSE))
    /\ UNCHANGED feed_pc

\* the socket ends: a failed connect, a broken connection, or close()
FdOnClose ==
    /\ Len(trace) < MaxFeedEvents
    /\ ws \in {"connecting", "open", "closing"}
    /\ feed_pc = "idle"
    /\ \E r \in {on_close([Fd EXCEPT !.ws = "closed"])} :
           /\ SetFeed(r.f)
           /\ feed_pc' = IF r.reconnect THEN "sleep" ELSE "idle"
           /\ FdRecord(FeedEvent("on_close", Fd, r.f, r.reconnect))

FdStop ==
    /\ FdMayCall
    /\ \E f \in {data_feed_stop(Fd)} :
           /\ SetFeed(f)
           /\ FdRecord(FeedEvent("stop", Fd, f, is_running))
    /\ UNCHANGED feed_pc

SmStop ==
    /\ FdMayCall
    /\ \E r \in {signal_manager_stop(Fd)} :
           /\ SetFeed(r.f)
           /\ FdRecord(FeedEvent("signal_manager_stop", Fd, r.f, r.logged))
    /\ UNCHANGED feed_pc

NextFeed ==
    \/ FdStart
    \/ FdConnect
    \/ FdOnOpen
    \/ FdOnClose
    \/ FdStop
    \/ SmStop

SpecFeed == Init /\ [][NextFeed]_vars

\* the events i..j of the trace with the given names
EventsIn(i, j, ops) == {k \in i..j : trace[k].op \in ops}

\* C22: reconnect_attempts stays within 0..max_reconnect_attempts; an
\* on_close on a running feed with fewer than 5 attempts adds one and
\* reconnects; on_open sets the counter to 0; an on_close with the counter
\* at 5 does not reconnect and clears is_running; and without an on_open or
\* a start in between there are at most 5 reconnects, the sixth on_close
\* leaving the feed stopped.
C22_BoundedReconnect ==
    /\ reconnect_attempts \in 0..max_reconnect_attempts
    /\ \A k \in 1..Len(trace) :
           /\ (/\ trace[k].op = "on_close"
               /\ trace[k].before.is_running
               /\ trace[k].before.reconnect_attempts < max_reconnect_attempts)
                  => /\ trace[k].after.reconnect_attempts
                            = trace[k].before.reconnect_attempts + 1
                     /\ trace[k].flag
                     /\ trace[k].after.is_running
           /\ trace[k].op = "on_open"
                  => trace[k].after.reconnect_attempts = 0
           /\ (/\ trace[k].op = "on_close"
               /\ trace[k].before.reconnect_attempts = max_reconnect_attempts)
                  => /\ ~trace[k].flag
                     /\ ~trace[k].after.is_running
                     /\ trace[k].after.reconnect_attempts
                            = max_reconnect_attempts
    /\ \A i \in 1..Len(trace) : \A j \in i..Len(trace) :
           EventsIn(i, j, {"on_open", "start"}) = {}
               => /\ Cardinality({k \in EventsIn(i, j, {"on_close"}) :
                                      trace[k].flag})
                         <= max_reconnect_attempts
                  /\ Cardinality(EventsIn(i, j, {"on_close"}))
                         > max_reconnect_attempts
                         => ~trace[j].after.is_running

\* a feed that was started and whose socket ended six times without ever
\* opening: five reconnects, then stopped by on_close
C22_Witness ==
    /\ Len(trace) >= 7
    /\ trace[1].op = "start"
    /\ \A k \in 2..7 : trace[k].op = "on_close"
    /\ \A k \in 2..6 : trace[k].flag
    /\ trace[7].before.is_running
    /\ trace[7].before.reconnect_attempts = max_reconnect_attempts
    /\ ~trace[7].flag
    /\ ~is_running
    /\ ws = "closed"

\* a reconnect that was followed by on_open: the counter back at 0
C22_ResetWitness ==
    /\ \E k \in 1..Len(trace) :
           /\ trace[k].op = "on_open"
           /\ trace[k].before.reconnect_attempts = 2
    /\ reconnect_attempts = 0
    /\ is_running


\* whether the k-th event is a stop that cleared is_running
StopActed(k) ==
    /\ trace[k].op \in {"stop", "signal_manager_stop"}
    /\ trace[k].before.is_running
    /\ ~trace[k].after.is_running

\* once a stop has cleared is_running, and until start is called, no
\* on_close reconnects and is_connected() is false
StopIsFinal ==
    \A i \in 1..Len(trace) :
        StopActed(i) =>
            /\ \A j \in i..Len(trace) :
                   EventsIn(i, j, {"start"}) = {}
                       => /\ ~is_connected(trace[j].after)
                          /\ (j > i /\ trace[j].op = "on_close")
                                 => ~trace[j].flag
            /\ EventsIn(i, Len(trace), {"start"}) = {} => ~is_connected(Fd)

\* C23 as stated: a stop is final, and of two calls of SignalManager.stop
\* with no start in between the second changes nothing and logs nothing.
C23_SecondStopIsNoOp ==
    /\ StopIsFinal
    /\ \A i \in 1..Len(trace) : \A j \in (i + 1)..Len(trace) :
           (/\ trace[i].op = "signal_manager_stop"
            /\ trace[j].op = "signal_manager_stop"
            /\ EventsIn(i, j, {"start"}) = {})
               => /\ ~trace[j].flag
                  /\ trace[j].after = trace[j].before

\* C23, what holds: a stop is final, and a SignalManager.stop that follows
\* one that stopped the feed and logged the statistics, with no start in
\* between, changes nothing and logs nothing.
C23_SecondStopAfterActingStop ==
    /\ StopIsFinal
    /\ \A i \in 1..Len(trace) : \A j \in (i + 1)..Len(trace) :
           (/\ trace[i].op = "signal_manager_stop"
            /\ trace[i].flag
            /\ trace[j].op = "signal_manager_stop"
            /\ EventsIn(i, j, {"start"}) = {})
               => /\ ~trace[j].flag
                  /\ trace[j].after = trace[j].before

\* SignalManager.stop on an open feed, the on_close of the socket it closed,
\* and a second SignalManager.stop
C23_Witness ==
    /\ Len(trace) >= 5
    /\ trace[Len(trace) - 2].op = "signal_manager_stop"
    /\ trace[Len(trace) - 2].flag
    /\ trace[Len(trace) - 2].before.ws = "open"
    /\ trace[Len(trace) - 1].op = "on_close"
    /\ ~trace[Len(trace) - 1].flag
    /\ trace[Len(trace)].op = "signal_manager_stop"
    /\ ~trace[Len(trace)].flag
    /\ ~is_connected(Fd)

\* SignalManager.stop called before the feed thread has created the socket
\* returns at once; called again after _connect it stops the feed
C23_RaceWitness ==
    /\ Len(trace) = 3
    /\ trace[1].op = "start"
    /\ trace[2].op = "signal_manager_stop"
    /\ ~trace[2].flag
    /\ trace[2].after.is_running
    /\ trace[3].op = "signal_manager_stop"
    /\ trace[3].flag


-----------------------------------------------------------------------------
(* SpecPlateau: the program with fast 1, slow 2, smoothing 1 and           *)
(* normalization 2, where a smoothed value often repeats the one before    *)
(* it.  The history is any three closed candles with closes in 1..3; every *)
(* message is a closed kline with a close in 1..3.                         *)

MaxPlateauLive == 3     \* live candles delivered in one run of SpecPlateau

PlateauConfig ==
    [fast_period |-> 1, slow_period |-> 2,
     smoothing_period |-> 1, normalization_period |-> 2]

PlateauPrices == 1..3

InitPlateau == InitWith(PlateauConfig)

PlateauLoad ==
    /\ pc = "init"
    /\ \E cs \in [1..candles_to_request(config) -> PlateauPrices] :
         \E r \in {load_historical_candles(config, TRUE,
                                           kline_response(cs))} :
             /\ pc' = IF r.raised THEN "failed" ELSE "ingest"
             /\ pending' = r.candles
    /\ UNCHANGED <<config, engine, gateway, feed, threads, ghost>>

PlateauOnMessage(close_price) ==
    /\ Len(trace) < MaxPlateauLive
    /\ OnMessageStep([k |-> TRUE, x |-> TRUE, T |-> 1, c |-> close_price])

NextPlateau ==
    \/ PlateauLoad
    \/ StartIngest
    \/ StartFinish
    \/ StartFeed
    \/ FeedConnect
    \/ OnOpen
    \/ \E close_price \in PlateauPrices : PlateauOnMessage(close_price)

SpecPlateau == InitPlateau /\ [][NextPlateau]_vars

\* whether the smoothed value appended by live step i equals the one before
Flat(i) ==
    /\ trace[i].n >= 2
    /\ smoothed_history[trace[i].n - 1] = smoothed_history[trace[i].n]

\* current_trend after live step i
TrendAfter(i) ==
    IF i < Len(trace) THEN trace[i + 1].before ELSE current_trend

\* C24: over the live steps a current_trend of LONG or SHORT stays LONG or
\* SHORT; no live step makes it NONE or unset (NONE is what
\* finish_historical_loading left, unset what __init__ left); and across
\* rise, flat, rise (or fall, flat, fall) the flat step and the second rise
\* log nothing and the trend is kept.
C24_LiveNeverAssignsNone ==
    /\ \A i \in 1..Len(trace) :
           /\ trace[i].before \in {LONG, SHORT}
                  => TrendAfter(i) \in {LONG, SHORT}
           /\ TrendAfter(i) = NONE => trace[i].before = NONE
           /\ TrendAfter(i) = None => trace[i].before = None
           /\ Flat(i) => /\ trace[i].signal = NONE
                         /\ TrendAfter(i) = trace[i].before
    /\ \A i \in 1..(Len(trace) - 2) :
           /\ (Rises(i) /\ Flat(i + 1) /\ Rises(i + 2))
                  => /\ trace[i + 2].signal = NONE
                     /\ trace[i + 2].event = NONE
                     /\ TrendAfter(i + 2) = LONG
           /\ (Falls(i) /\ Flat(i + 1) /\ Falls(i + 2))
                  => /\ trace[i + 2].signal = NONE
                     /\ trace[i + 2].event = NONE
                     /\ TrendAfter(i + 2) = SHORT
    /\ pc \in {"init", "ingest"} => current_trend = None

\* rise, flat, rise after a warm-up that ended on a falling pair: the first
\* rise logs LONG, the second nothing
C24_Witness ==
    /\ Len(trace) = 3
    /\ Rises(1) /\ Flat(2) /\ Rises(3)
    /\ trace[1].before = SHORT
    /\ trace[1].event = LONG
    /\ trace[2].before = LONG
    /\ trace[3].before = LONG
    /\ trace[3].event = NONE
    /\ current_trend = LONG
    /\ signals_generated = 1

\* a warm-up that ended on an equal pair: NONE until the first live step
\* with a direction
C24_NoneWitness ==
    /\ Len(trace) = 2
    /\ trace[1].before = NONE
    /\ Flat(1)
    /\ trace[2].before = NONE
    /\ trace[2].event = SHORT
    /\ current_trend = SHORT

=============================================================================
